---- MODULE Spec2Model ----
(***************************************************************************)
(* A model of ReleasePR (src/release-pr.ts): run, nodeRelease,              *)
(* closeStaleReleasePRs, coerceReleaseCandidate, commits, shaFromCommits,   *)
(* running against a GitHub repository holding pull requests, labels, a     *)
(* latest tag and the commits since that tag.                               *)
(*                                                                         *)
(* Every `await` of the source is one action of the model.  A remote call   *)
(* either returns or rejects; a rejection propagates out of run, since the  *)
(* source has no try/catch.                                                 *)
(***************************************************************************)
EXTENDS Integers, Sequences, FiniteSets, TLC

\* ------------------------------------------------------------------ bounds
MaxCommits == 2
NumRuns == 2

Procs == 1..NumRuns

\* ------------------------------------------------------------- value domains
\* `undefined` of the source: an absent tag, an absent releaseAs (the empty
\* string is falsy as well), the null of semver.inc.
Undefined == <<>>
\* `undefined` where a PR number is expected (run's result, findMergedReleasePR).
NoPR == 0

\* A version string "a.b.c" is the tuple <<a, b, c>>; any other length is a
\* string semver does not parse (e.g. "1.2").
SeedVersion == <<1, 0, 0>>
TagVersions == {<<1, 2, 3>>, <<0, 1, 0>>, <<1, 2>>}
Overrides == {<<0, 9, 0>>, <<2, 0, 0>>}

ReleaseTypeNode == "node"
ReleaseTypes == {ReleaseTypeNode, "ruby"}

\* A commit message is abstracted to what the classifier makes of it.
CommitKinds == {"breaking", "feat", "fix", "chore"}
CommitSeqs == UNION {[1..n -> CommitKinds] : n \in 0..MaxCommits}

\* Pull requests of the repository before the first run: #8 is the merged,
\* labeled, not yet released one (when there is one), #9 is an open pull
\* request without the release labels, #10 and #11 are open release PRs.
MergedPRNumber == 8
PlainPRNumber == 9
InitialReleasePRs == {10, 11}
FirstNewPR == 12

RemoteOps == {"findMergedReleasePR", "latestTag", "commitsSinceSha", "openPR",
              "addLabels", "findOpenReleasePRs", "closePR"}

VARIABLES
    releaseType,        \* this.releaseType
    releaseAs,          \* this.releaseAs
    bumpMinorPreMajor,  \* this.bumpMinorPreMajor
    repoTag,            \* the repository's latest tag (its version), or Undefined
    repoCommits,        \* the commits since repoTag, newest first
    mergedPR,           \* the merged release PR awaiting release, or NoPR
    openPRs,            \* numbers of the open pull requests
    labeledPRs,         \* numbers of the pull requests carrying this.labels
    nextPR,             \* the number the next created pull request gets
    invocations,        \* how many times the caller invokes run(), one after another
    run                 \* per invocation of run(): its position and locals

cfgVars == <<releaseType, releaseAs, bumpMinorPreMajor, repoTag, repoCommits, mergedPR,
             invocations>>
ghVars == <<openPRs, labeledPRs, nextPR>>
vars == <<cfgVars, ghVars, run>>

\* The open pull requests carrying the release-tracking labels.
OpenLabeled == openPRs \cap labeledPRs

\* ------------------------------------------------------------ pure functions
\* semver.inc(version, release): null for a version that does not parse or a
\* release type that is none of major, minor, patch.
semverInc(version, release) ==
    IF Len(version) # 3 THEN Undefined
    ELSE IF release = "major" THEN <<version[1] + 1, 0, 0>>
    ELSE IF release = "minor" THEN <<version[1], version[2] + 1, 0>>
    ELSE IF release = "patch" THEN <<version[1], version[2], version[3] + 1>>
    ELSE Undefined

HasKind(cs, k) == \E j \in 1..Len(cs) : cs[j] = k

\* ConventionalCommits.suggestBump: the Bump Resolver.
suggestBump(cs, version, minorPreMajor) ==
    LET preMajor == Len(version) = 3 /\ version[1] = 0
    IN  IF HasKind(cs, "breaking") THEN "major"
        ELSE IF HasKind(cs, "feat")
             THEN IF preMajor /\ minorPreMajor THEN "patch" ELSE "minor"
        ELSE IF HasKind(cs, "fix") THEN "patch"
        ELSE "none"

\* The commits of one kind, in their order in cs, each rendered as a bullet.
RECURSIVE Bullets(_, _)
Bullets(cs, k) ==
    IF cs = <<>> THEN <<>>
    ELSE (IF Head(cs) = k THEN <<"* " \o k>> ELSE <<>>) \o Bullets(Tail(cs), k)

Section(cs, k) ==
    IF HasKind(cs, k) THEN <<"### " \o k>> \o Bullets(cs, k) ELSE <<>>

\* ConventionalCommits.generateChangelogEntry: the Changelog Synthesizer.  The
\* entry is the sequence of its lines: the title, then a section per
\* non-empty bucket of user-facing commits.
generateChangelogEntry(cs) ==
    <<"## title">> \o Section(cs, "breaking") \o Section(cs, "feat") \o Section(cs, "fix")

\* The triviality check testing for an empty entry instead of a one-line one.
IsTitleOnly_Empty(changelogEntry) == Len(changelogEntry) = 0

\* changelogEntry.split('\n').length === 1
IsTitleOnly(changelogEntry) == Len(changelogEntry) = 1

\* coerceReleaseCandidate, lines 182 and 187: which way the version is made.
UsesBump(latestTag, override) == latestTag # Undefined /\ override = Undefined

\* coerceReleaseCandidate testing only latestTag at line 182: the override
\* is used on the first release alone.
coerceVersion_BumpFirst(latestTag, override, cs, minorPreMajor) ==
    LET version == IF latestTag # Undefined THEN latestTag ELSE SeedVersion
    IN  IF latestTag # Undefined
        THEN semverInc(version, suggestBump(cs, version, minorPreMajor))
        ELSE IF override # Undefined THEN override
        ELSE version

\* coerceReleaseCandidate testing only !this.releaseAs at line 182: the
\* first release is the seed version incremented by the bump.
coerceVersion_SeedBump(latestTag, override, cs, minorPreMajor) ==
    LET version == IF latestTag # Undefined THEN latestTag ELSE SeedVersion
    IN  IF override = Undefined
        THEN semverInc(version, suggestBump(cs, version, minorPreMajor))
        ELSE override

\* coerceReleaseCandidate without the assignment of line 186: the increment
\* is computed and tested, and the tag's version is returned.
coerceVersion_NoInc(latestTag, override, cs, minorPreMajor) ==
    LET version == IF latestTag # Undefined THEN latestTag ELSE SeedVersion
    IN  IF UsesBump(latestTag, override)
        THEN IF semverInc(version, suggestBump(cs, version, minorPreMajor)) = Undefined
             THEN Undefined
             ELSE version
        ELSE IF override # Undefined THEN override
        ELSE version

\* coerceReleaseCandidate: the candidate's version, Undefined where the
\* source throws 'failed to increment'.
coerceVersion(latestTag, override, cs, minorPreMajor) ==
    LET version == IF latestTag # Undefined THEN latestTag ELSE SeedVersion
    IN  IF UsesBump(latestTag, override)
        THEN semverInc(version, suggestBump(cs, version, minorPreMajor))
        ELSE IF override # Undefined THEN override
        ELSE version

\* closeStaleReleasePRs without the test of line 169.
IsStale_Always(number, currentPRNumber) == TRUE

\* closeStaleReleasePRs with the test of line 169 inverted into one that
\* no listed pull request passes.
IsStale_Never(number, currentPRNumber) == FALSE

\* closeStaleReleasePRs, line 169: pr.number !== currentPRNumber
IsStale(number, currentPRNumber) == number # currentPRNumber

\* GitHub.findOpenReleasePRs: the pull requests of S as a list, the most
\* recently created (the highest number) first.
RECURSIVE Listing(_)
Listing(S) ==
    IF S = {} THEN <<>>
    ELSE LET newest == CHOOSE n \in S : \A m \in S : m <= n
         IN  <<newest>> \o Listing(S \ {newest})

\* shaFromCommits: the sha after the last '-hash-' of commits[0].  The j-th
\* commit of the listing carries the sha j; NoSha where commits[0] is
\* undefined and its split throws a TypeError.
NoSha == 0
shaFromCommits(commits) == IF commits = <<>> THEN NoSha ELSE 1

\* ------------------------------------------------------------------- state
Call(op, arg, ok) == [op |-> op, arg |-> arg, ok |-> ok]

NewRun ==
    [pc |-> "idle", latestTag |-> Undefined, commits |-> <<>>,
     bump |-> "", version |-> Undefined, previousTag |-> Undefined,
     changelogEntry |-> <<>>,
     pr |-> NoPR, prs |-> <<>>, i |-> 0,
     outcome |-> "", error |-> "", result |-> NoPR, calls |-> <<>>,
     openAtStart |-> {}, labeledAtStart |-> {}]

\* The repository before the first invocation.
InitRepo ==
    /\ repoCommits \in CommitSeqs
    /\ mergedPR \in {NoPR, MergedPRNumber}
    /\ \E S \in SUBSET InitialReleasePRs :
          /\ openPRs = {PlainPRNumber} \cup S
          /\ labeledPRs = S \cup (IF mergedPR = NoPR THEN {} ELSE {mergedPR})
    /\ nextPR = FirstNewPR
    /\ run = [p \in Procs |-> NewRun]

\* One invocation of run(), for every configuration and repository.
Init ==
    /\ releaseType \in ReleaseTypes
    /\ releaseAs \in {Undefined} \cup Overrides
    /\ bumpMinorPreMajor \in BOOLEAN
    /\ repoTag \in {Undefined} \cup TagVersions
    /\ invocations = 1
    /\ InitRepo

\* run() invoked NumRuns times in succession on a repository whose history
\* does not change, with the options the command line gives by default.
InitRepeat ==
    /\ releaseType = ReleaseTypeNode
    /\ releaseAs = Undefined
    /\ bumpMinorPreMajor = FALSE
    /\ repoTag \in {Undefined, <<1, 2, 3>>}
    /\ invocations = NumRuns
    /\ InitRepo

\* run() invoked by two triggers at once on the same repository, with the
\* options the command line gives by default.
InitConcurrent ==
    /\ releaseType = ReleaseTypeNode
    /\ releaseAs = Undefined
    /\ bumpMinorPreMajor = FALSE
    /\ repoTag \in {Undefined, <<1, 2, 3>>}
    /\ invocations = 2
    /\ InitRepo

\* A call is recorded when it is issued.
Logged(p, op, arg, ok) == Append(run[p].calls, Call(op, arg, ok))

\* The run ends: a return (error = "") or a throw.
Ended(r, outcome, error, result) ==
    [r EXCEPT !.pc = "done", !.outcome = outcome, !.error = error, !.result = result]

\* A remote call rejects: the rejection leaves run() as it is.
Rejected(p, op, arg) ==
    /\ run' = [run EXCEPT ![p] =
                 Ended([run[p] EXCEPT !.calls = Logged(p, op, arg, FALSE)],
                       "ERROR", op, NoPR)]
    /\ UNCHANGED <<cfgVars, ghVars>>

\* ----------------------------------------------------------------- actions
\* run() is invoked.  Invocations follow one another: the caller starts the
\* next one when the previous one has ended.
Start(p) ==
    /\ run[p].pc = "idle"
    /\ p <= invocations
    /\ \A q \in Procs : q < p => run[q].pc = "done"
    /\ run' = [run EXCEPT ![p].pc = "findMergedReleasePR",
                          ![p].openAtStart = openPRs,
                          ![p].labeledAtStart = labeledPRs]
    /\ UNCHANGED <<cfgVars, ghVars>>

\* run() is invoked while other invocations may be under way: nothing in
\* the source keeps a second invocation from starting.
StartConcurrent(p) ==
    /\ run[p].pc = "idle"
    /\ p <= invocations
    /\ run' = [run EXCEPT ![p].pc = "findMergedReleasePR",
                          ![p].openAtStart = openPRs,
                          ![p].labeledAtStart = labeledPRs]
    /\ UNCHANGED <<cfgVars, ghVars>>

\* run without the return of line 80: a pending release is reported, and
\* the release goes on.
FindMergedReleasePR_NoReturn(p) ==
    /\ run[p].pc = "findMergedReleasePR"
    /\ \/ Rejected(p, "findMergedReleasePR", NoPR)
       \/ /\ LET r == [run[p] EXCEPT !.calls = Logged(p, "findMergedReleasePR", NoPR, TRUE)]
             IN  run' = [run EXCEPT ![p] =
                    IF releaseType = ReleaseTypeNode
                    THEN [r EXCEPT !.pc = "latestTag"]
                    ELSE Ended(r, "ERROR", "unknown release type", NoPR)]
          /\ UNCHANGED <<cfgVars, ghVars>>

\* run, lines 73-88.
FindMergedReleasePR(p) ==
    /\ run[p].pc = "findMergedReleasePR"
    /\ \/ Rejected(p, "findMergedReleasePR", NoPR)
       \/ /\ LET r == [run[p] EXCEPT !.calls = Logged(p, "findMergedReleasePR", NoPR, TRUE)]
             IN  run' = [run EXCEPT ![p] =
                    IF mergedPR # NoPR
                    THEN Ended(r, "PENDING_RELEASE_EXISTS", "", mergedPR)
                    ELSE IF releaseType = ReleaseTypeNode
                    THEN [r EXCEPT !.pc = "latestTag"]
                    ELSE Ended(r, "ERROR", "unknown release type", NoPR)]
          /\ UNCHANGED <<cfgVars, ghVars>>

\* nodeRelease, line 92.
LatestTag(p) ==
    /\ run[p].pc = "latestTag"
    /\ \/ Rejected(p, "latestTag", NoPR)
       \/ /\ run' = [run EXCEPT ![p].pc = "commits",
                                ![p].latestTag = repoTag,
                                ![p].calls = Logged(p, "latestTag", NoPR, TRUE)]
          /\ UNCHANGED <<cfgVars, ghVars>>

\* nodeRelease, lines 93-94, and commits.
Commits(p) ==
    /\ run[p].pc = "commits"
    /\ \/ Rejected(p, "commitsSinceSha", NoPR)
       \/ /\ run' = [run EXCEPT ![p].pc = "coerceReleaseCandidate",
                                ![p].commits = repoCommits,
                                ![p].calls = Logged(p, "commitsSinceSha", NoPR, TRUE)]
          /\ UNCHANGED <<cfgVars, ghVars>>

\* nodeRelease building ConventionalCommits without the bumpMinorPreMajor
\* option of line 99.
CoerceReleaseCandidate_NoPreMajor(p) ==
    /\ run[p].pc = "coerceReleaseCandidate"
    /\ LET r == run[p]
           version == coerceVersion(r.latestTag, releaseAs, r.commits, FALSE)
           logged == IF UsesBump(r.latestTag, releaseAs)
                     THEN [r EXCEPT !.calls = Logged(p, "suggestBump", NoPR, TRUE),
                                    !.bump = suggestBump(r.commits, r.latestTag, FALSE)]
                     ELSE r
       IN  run' = [run EXCEPT ![p] =
              IF version = Undefined
              THEN Ended(logged, "ERROR", "failed to increment", NoPR)
              ELSE [logged EXCEPT !.pc = "generateChangelogEntry",
                                  !.version = version,
                                  !.previousTag = r.latestTag]]
    /\ UNCHANGED <<cfgVars, ghVars>>

\* nodeRelease, lines 96-102, and coerceReleaseCandidate.
CoerceReleaseCandidate(p) ==
    /\ run[p].pc = "coerceReleaseCandidate"
    /\ LET r == run[p]
           version == coerceVersion(r.latestTag, releaseAs, r.commits, bumpMinorPreMajor)
           logged == IF UsesBump(r.latestTag, releaseAs)
                     THEN [r EXCEPT !.calls = Logged(p, "suggestBump", NoPR, TRUE),
                                    !.bump = suggestBump(r.commits, r.latestTag, bumpMinorPreMajor)]
                     ELSE r
       IN  run' = [run EXCEPT ![p] =
              IF version = Undefined
              THEN Ended(logged, "ERROR", "failed to increment", NoPR)
              ELSE [logged EXCEPT !.pc = "generateChangelogEntry",
                                  !.version = version,
                                  !.previousTag = r.latestTag]]
    /\ UNCHANGED <<cfgVars, ghVars>>

\* nodeRelease retiring the stale pull requests before it opens the new one.
GenerateChangelogEntry_RetireFirst(p) ==
    /\ run[p].pc = "generateChangelogEntry"
    /\ LET changelogEntry == generateChangelogEntry(run[p].commits)
           r == [run[p] EXCEPT !.changelogEntry = changelogEntry,
                               !.calls = Logged(p, "generateChangelogEntry", NoPR, TRUE)]
       IN  run' = [run EXCEPT ![p] =
              IF IsTitleOnly(changelogEntry)
              THEN Ended(r, "NO_USER_FACING_CHANGE", "", NoPR)
              ELSE [r EXCEPT !.pc = "findOpenReleasePRs"]]
    /\ UNCHANGED <<cfgVars, ghVars>>

\* nodeRelease skipping the test of line 113 when a version was asked for.
GenerateChangelogEntry_OverrideForces(p) ==
    /\ run[p].pc = "generateChangelogEntry"
    /\ LET changelogEntry == generateChangelogEntry(run[p].commits)
           r == [run[p] EXCEPT !.changelogEntry = changelogEntry,
                               !.calls = Logged(p, "generateChangelogEntry", NoPR, TRUE)]
       IN  run' = [run EXCEPT ![p] =
              IF IsTitleOnly(changelogEntry) /\ releaseAs = Undefined
              THEN Ended(r, "NO_USER_FACING_CHANGE", "", NoPR)
              ELSE [r EXCEPT !.pc = "openPR"]]
    /\ UNCHANGED <<cfgVars, ghVars>>

\* nodeRelease, lines 104-119.
GenerateChangelogEntry(p) ==
    /\ run[p].pc = "generateChangelogEntry"
    /\ LET changelogEntry == generateChangelogEntry(run[p].commits)
           r == [run[p] EXCEPT !.changelogEntry = changelogEntry,
                               !.calls = Logged(p, "generateChangelogEntry", NoPR, TRUE)]
       IN  run' = [run EXCEPT ![p] =
              IF IsTitleOnly(changelogEntry)
              THEN Ended(r, "NO_USER_FACING_CHANGE", "", NoPR)
              ELSE [r EXCEPT !.pc = "openPR"]]
    /\ UNCHANGED <<cfgVars, ghVars>>

\* nodeRelease, lines 121-157: shaFromCommits, then openPR, which creates
\* an open pull request and returns its number.
OpenPR(p) ==
    /\ run[p].pc = "openPR"
    /\ LET sha == shaFromCommits(run[p].commits) IN
       IF sha = NoSha
       THEN /\ run' = [run EXCEPT ![p] = Ended(run[p], "ERROR", "TypeError", NoPR)]
            /\ UNCHANGED <<cfgVars, ghVars>>
       ELSE \/ Rejected(p, "openPR", sha)
            \/ /\ run' = [run EXCEPT ![p].pc = "addLabels",
                                     ![p].pr = nextPR,
                                     ![p].calls = Logged(p, "openPR", sha, TRUE)]
               /\ openPRs' = openPRs \cup {nextPR}
               /\ nextPR' = nextPR + 1
               /\ UNCHANGED <<cfgVars, labeledPRs>>

\* nodeRelease with addLabels in a try/catch that drops the rejection.
AddLabels_Swallow(p) ==
    /\ run[p].pc = "addLabels"
    /\ \/ /\ run' = [run EXCEPT ![p].pc = "findOpenReleasePRs",
                                ![p].calls = Logged(p, "addLabels", run[p].pr, FALSE)]
          /\ UNCHANGED <<cfgVars, ghVars>>
       \/ /\ run' = [run EXCEPT ![p].pc = "findOpenReleasePRs",
                                ![p].calls = Logged(p, "addLabels", run[p].pr, TRUE)]
          /\ labeledPRs' = labeledPRs \cup {run[p].pr}
          /\ UNCHANGED <<cfgVars, openPRs, nextPR>>

\* nodeRelease labeling the pull request before the one openPR returned.
AddLabels_WrongNumber(p) ==
    /\ run[p].pc = "addLabels"
    /\ \/ Rejected(p, "addLabels", run[p].pr - 1)
       \/ /\ run' = [run EXCEPT ![p].pc = "findOpenReleasePRs",
                                ![p].calls = Logged(p, "addLabels", run[p].pr - 1, TRUE)]
          /\ labeledPRs' = labeledPRs \cup {run[p].pr - 1}
          /\ UNCHANGED <<cfgVars, openPRs, nextPR>>

\* nodeRelease, line 158.
AddLabels(p) ==
    /\ run[p].pc = "addLabels"
    /\ \/ Rejected(p, "addLabels", run[p].pr)
       \/ /\ run' = [run EXCEPT ![p].pc = "findOpenReleasePRs",
                                ![p].calls = Logged(p, "addLabels", run[p].pr, TRUE)]
          /\ labeledPRs' = labeledPRs \cup {run[p].pr}
          /\ UNCHANGED <<cfgVars, openPRs, nextPR>>

\* closeStaleReleasePRs, lines 164-165.
FindOpenReleasePRs(p) ==
    /\ run[p].pc = "findOpenReleasePRs"
    /\ \/ Rejected(p, "findOpenReleasePRs", NoPR)
       \/ /\ run' = [run EXCEPT ![p].pc = "closeStaleReleasePRs",
                                ![p].prs = Listing(OpenLabeled),
                                ![p].i = 1,
                                ![p].calls = Logged(p, "findOpenReleasePRs", NoPR, TRUE)]
          /\ UNCHANGED <<cfgVars, ghVars>>

\* closeStaleReleasePRs listing the open release PRs again after a turn of
\* the loop that closed one, until a listing holds nothing to close.
CloseStaleReleasePRs_ListAgain(p) ==
    /\ run[p].pc = "closeStaleReleasePRs"
    /\ LET r == run[p] IN
       \/ /\ r.i > Len(r.prs)
          /\ run' = [run EXCEPT ![p] = Ended(r, "PR_OPEN", "", r.pr)]
          /\ UNCHANGED <<cfgVars, ghVars>>
       \/ /\ r.i <= Len(r.prs)
          /\ ~IsStale(r.prs[r.i], r.pr)
          /\ run' = [run EXCEPT ![p].i = r.i + 1]
          /\ UNCHANGED <<cfgVars, ghVars>>
       \/ /\ r.i <= Len(r.prs)
          /\ IsStale(r.prs[r.i], r.pr)
          /\ Rejected(p, "closePR", r.prs[r.i])
       \/ /\ r.i <= Len(r.prs)
          /\ IsStale(r.prs[r.i], r.pr)
          /\ run' = [run EXCEPT ![p].pc = "findOpenReleasePRs",
                                ![p].calls = Logged(p, "closePR", r.prs[r.i], TRUE)]
          /\ openPRs' = openPRs \ {r.prs[r.i]}
          /\ UNCHANGED <<cfgVars, labeledPRs, nextPR>>

\* closeStaleReleasePRs, lines 166-173, one turn of the loop; nodeRelease,
\* line 160, when the loop is over.
CloseStaleReleasePRs(p) ==
    /\ run[p].pc = "closeStaleReleasePRs"
    /\ LET r == run[p] IN
       \/ /\ r.i > Len(r.prs)
          /\ run' = [run EXCEPT ![p] = Ended(r, "PR_OPEN", "", r.pr)]
          /\ UNCHANGED <<cfgVars, ghVars>>
       \/ /\ r.i <= Len(r.prs)
          /\ ~IsStale(r.prs[r.i], r.pr)
          /\ run' = [run EXCEPT ![p].i = r.i + 1]
          /\ UNCHANGED <<cfgVars, ghVars>>
       \/ /\ r.i <= Len(r.prs)
          /\ IsStale(r.prs[r.i], r.pr)
          /\ Rejected(p, "closePR", r.prs[r.i])
       \/ /\ r.i <= Len(r.prs)
          /\ IsStale(r.prs[r.i], r.pr)
          /\ run' = [run EXCEPT ![p].i = r.i + 1,
                                ![p].calls = Logged(p, "closePR", r.prs[r.i], TRUE)]
          /\ openPRs' = openPRs \ {r.prs[r.i]}
          /\ UNCHANGED <<cfgVars, labeledPRs, nextPR>>

Next ==
    \E p \in Procs :
        \/ Start(p)
        \/ FindMergedReleasePR(p)
        \/ LatestTag(p)
        \/ Commits(p)
        \/ CoerceReleaseCandidate(p)
        \/ GenerateChangelogEntry(p)
        \/ OpenPR(p)
        \/ AddLabels(p)
        \/ FindOpenReleasePRs(p)
        \/ CloseStaleReleasePRs(p)

Spec == Init /\ [][Next]_vars

SpecRepeat == InitRepeat /\ [][Next]_vars

NextConcurrent ==
    \E p \in Procs :
        \/ StartConcurrent(p)
        \/ FindMergedReleasePR(p)
        \/ LatestTag(p)
        \/ Commits(p)
        \/ CoerceReleaseCandidate(p)
        \/ GenerateChangelogEntry(p)
        \/ OpenPR(p)
        \/ AddLabels(p)
        \/ FindOpenReleasePRs(p)
        \/ CloseStaleReleasePRs(p)

SpecConcurrent == InitConcurrent /\ [][NextConcurrent]_vars

\* Every remote call returns or rejects, and the caller's invocation is made:
\* a run that can take a step takes one.
SpecFair == Init /\ [][Next]_vars /\ WF_vars(Next)

TypeOK ==
    /\ openPRs \subseteq PlainPRNumber..(FirstNewPR + NumRuns)
    /\ nextPR \in FirstNewPR..(FirstNewPR + NumRuns)
    /\ \A p \in Procs :
          /\ run[p].pc \in {"idle", "findMergedReleasePR", "latestTag", "commits",
                "coerceReleaseCandidate", "generateChangelogEntry", "openPR", "addLabels",
                "findOpenReleasePRs", "closeStaleReleasePRs", "done"}
          /\ run[p].outcome \in {"", "PENDING_RELEASE_EXISTS", "NO_USER_FACING_CHANGE",
                "PR_OPEN", "ERROR"}

\* ------------------------------------------------------- reading the record
Range(f) == {f[j] : j \in DOMAIN f}

\* The positions of the calls of op in the calls of run p.
CallsOf(p, op) == {j \in 1..Len(run[p].calls) : run[p].calls[j].op = op}

\* Run p has been answered by op before position j.
ReturnedBefore(p, op, j) ==
    \E k \in 1..(j - 1) : run[p].calls[k].op = op /\ run[p].calls[k].ok

\* The pull requests run p asked to close.
ClosedBy(p) == {run[p].calls[j].arg : j \in CallsOf(p, "closePR")}

\* Run p has returned: it ended, and not by a throw.
Returned(p) == run[p].pc = "done" /\ run[p].outcome # "ERROR"

\* Run p left the pull requests and their labels as it found them.
RepoUntouchedBy(p) == openPRs = run[p].openAtStart /\ labeledPRs = run[p].labeledAtStart

HasUserFacing(cs) == \E j \in 1..Len(cs) : cs[j] \in {"breaking", "feat", "fix"}

\* ------------------------------------------------------------------ claims

\* C1: in every run, findMergedReleasePR has returned before openPR is
\* issued, and openPR has returned before findOpenReleasePRs or any closePR
\* is issued.
C1_Ordering ==
    \A p \in Procs : \A j \in 1..Len(run[p].calls) :
        /\ run[p].calls[j].op = "openPR" => ReturnedBefore(p, "findMergedReleasePR", j)
        /\ run[p].calls[j].op \in {"findOpenReleasePRs", "closePR"}
              => ReturnedBefore(p, "openPR", j)

C1_Witness ==
    \E j \in CallsOf(1, "closePR") : ReturnedBefore(1, "openPR", j)

\* C2: retirement with the kept number n = pr and the listing S = prs asks
\* to close only numbers of S other than n, and, once the loop is over,
\* every one of them; n stays open, and so does a pull request outside S.
C2_Retirement ==
    \A p \in Procs :
        /\ ClosedBy(p) \subseteq Range(run[p].prs) \ {run[p].pr}
        /\ run[p].outcome = "PR_OPEN" =>
              /\ ClosedBy(p) = Range(run[p].prs) \ {run[p].pr}
              /\ run[p].pr \in openPRs
              /\ PlainPRNumber \in openPRs

C2_Witness ==
    /\ run[1].outcome = "PR_OPEN"
    /\ run[1].pr = 12
    /\ Range(run[1].prs) = {10, 11, 12}
    /\ ClosedBy(1) = {10, 11}
    /\ OpenLabeled = {12}

\* C3 as stated: after a single run that returned, from any initial set of
\* open labeled release PRs, at most one open pull request carries the
\* labels, and exactly one when the run created a pull request.
C3_AtMostOneAsStated ==
    Returned(1) =>
        /\ Cardinality(OpenLabeled) <= 1
        /\ run[1].outcome = "PR_OPEN" => Cardinality(OpenLabeled) = 1

\* C3, amended: a single run that ends in PR_OPEN leaves exactly one open
\* labeled pull request, the one it created; a run that ends in
\* PENDING_RELEASE_EXISTS or NO_USER_FACING_CHANGE leaves the pull requests
\* and their labels as they were before it.
C3_OneAfterPROpen ==
    Returned(1) =>
        IF run[1].outcome = "PR_OPEN"
        THEN OpenLabeled = {run[1].pr} /\ run[1].result = run[1].pr
        ELSE RepoUntouchedBy(1)

C3_Witness ==
    /\ run[1].outcome = "PR_OPEN"
    /\ run[1].openAtStart \cap run[1].labeledAtStart = {10, 11}
    /\ OpenLabeled = {run[1].pr}

\* C4: when findMergedReleasePR returns a merged, unreleased pull request,
\* the run ends in PENDING_RELEASE_EXISTS with that number as its result,
\* findMergedReleasePR is the only call it makes, and the pull requests and
\* labels are unchanged.
C4_PendingRelease ==
    \A p \in Procs :
        (mergedPR # NoPR /\ run[p].calls # <<>> /\ run[p].calls[1].ok) =>
            /\ run[p].pc = "done"
            /\ run[p].outcome = "PENDING_RELEASE_EXISTS"
            /\ run[p].result = mergedPR
            /\ Len(run[p].calls) = 1
            /\ run[p].calls[1].op = "findMergedReleasePR"
            /\ RepoUntouchedBy(p)

C4_Witness ==
    /\ run[1].outcome = "PENDING_RELEASE_EXISTS"
    /\ run[1].result = MergedPRNumber
    /\ OpenLabeled = {10, 11}

\* C5: when the synthesized changelog entry has the title line only, the
\* run ends in NO_USER_FACING_CHANGE, returns nothing, issues none of
\* openPR, addLabels, findOpenReleasePRs and closePR, and leaves the pull
\* requests and labels unchanged.
C5_NoUserFacingChange ==
    \A p \in Procs :
        Len(run[p].changelogEntry) = 1 =>
            /\ run[p].pc = "done"
            /\ run[p].outcome = "NO_USER_FACING_CHANGE"
            /\ run[p].result = NoPR
            /\ \A op \in {"openPR", "addLabels", "findOpenReleasePRs", "closePR"} :
                  CallsOf(p, op) = {}
            /\ RepoUntouchedBy(p)

C5_Witness ==
    /\ run[1].outcome = "NO_USER_FACING_CHANGE"
    /\ run[1].commits = <<"chore">>
    /\ run[1].changelogEntry = <<"## title">>
    /\ OpenLabeled = {10}

\* Run p is the last one made so far.
LastRun(p) == run[p].pc = "done" /\ \A q \in Procs : q > p => run[q].pc = "idle"

\* C6 as stated: after two runs in immediate succession on an unchanged
\* history, exactly one open pull request carries the labels.
C6_IdempotenceAsStated ==
    (LastRun(2) /\ Returned(1) /\ Returned(2)) => Cardinality(OpenLabeled) = 1

\* C6, amended: after two runs in immediate succession on an unchanged
\* history, the second run has the outcome of the first; when that outcome
\* is PR_OPEN exactly one open pull request carries the labels, the one the
\* second run returns; otherwise the second run leaves the pull requests
\* and labels as the first run left them.
C6_Idempotence ==
    (LastRun(2) /\ Returned(1) /\ Returned(2)) =>
        /\ run[2].outcome = run[1].outcome
        /\ IF run[2].outcome = "PR_OPEN"
           THEN OpenLabeled = {run[2].result} /\ run[2].result # NoPR
           ELSE RepoUntouchedBy(2)

C6_Witness ==
    /\ LastRun(2)
    /\ run[1].outcome = "PR_OPEN"
    /\ run[2].outcome = "PR_OPEN"
    /\ run[1].openAtStart \cap run[1].labeledAtStart = {10, 11}
    /\ OpenLabeled = {run[2].result}

\* C7 as stated: with a previous tag that parses, no override and no
\* user-facing commit since the tag, a run whose remote calls all return
\* ends as a no-op: it does not throw, opens no pull request and returns
\* nothing.
C7_EmptyHistoryIsNoOp ==
    \A p \in Procs :
        ( /\ run[p].pc = "done"
          /\ Len(run[p].latestTag) = 3
          /\ releaseAs = Undefined
          /\ ~HasUserFacing(run[p].commits)
          /\ \A j \in 1..Len(run[p].calls) : run[p].calls[j].ok
          /\ \E j \in 1..Len(run[p].calls) : run[p].calls[j].op = "commitsSinceSha" )
        => /\ run[p].outcome = "NO_USER_FACING_CHANGE"
           /\ run[p].result = NoPR
           /\ CallsOf(p, "openPR") = {}

\* C8 as stated: with an unsupported release type the run throws without
\* having issued findMergedReleasePR or any other call.
C8_ConfigErrorBeforeRemoteCalls ==
    \A p \in Procs :
        releaseType # ReleaseTypeNode =>
            /\ run[p].calls = <<>>
            /\ run[p].pc = "done" =>
                  run[p].outcome = "ERROR" /\ run[p].error = "unknown release type"

\* C9: a rejected remote call is the last call of its run, which ends in an
\* error with no result; a tag version that does not parse, with no
\* override, ends the run in an error before the changelog and any later
\* remote call; no remote call is made twice (closePR: twice for one pull
\* request); and a run that returned had no call rejected.
C9_ErrorsAbort ==
    \A p \in Procs :
        LET calls == run[p].calls IN
        /\ \A j \in 1..Len(calls) :
              ~calls[j].ok =>
                  /\ j = Len(calls)
                  /\ calls[j].op \in RemoteOps
                  /\ run[p].pc = "done"
                  /\ run[p].outcome = "ERROR"
                  /\ run[p].error = calls[j].op
                  /\ run[p].result = NoPR
        /\ ( /\ Len(run[p].latestTag) \notin {0, 3}
             /\ releaseAs = Undefined
             /\ run[p].pc \notin {"commits", "coerceReleaseCandidate"} )
           => /\ run[p].pc = "done"
              /\ run[p].outcome = "ERROR"
              /\ run[p].result = NoPR
              /\ \A j \in 1..Len(calls) :
                    calls[j].op \in {"findMergedReleasePR", "latestTag",
                                     "commitsSinceSha", "suggestBump"}
        /\ \A j, k \in 1..Len(calls) :
              (j # k /\ calls[j].op = calls[k].op /\ calls[j].op \in RemoteOps)
                  => calls[j].op = "closePR" /\ calls[j].arg # calls[k].arg
        /\ run[p].outcome = "ERROR" => run[p].pc = "done" /\ run[p].result = NoPR

C9_Witness ==
    /\ run[1].outcome = "ERROR"
    /\ run[1].error = "closePR"
    /\ Len(run[1].calls) >= 6
    /\ ~run[1].calls[Len(run[1].calls)].ok
    /\ Cardinality(OpenLabeled) = 2

\* C10: with an override releaseAs = v, for every commit sequence and every
\* previous tag, present or absent, parsed or not, coerceReleaseCandidate
\* returns version v and the tag as previousTag, never throws, and does not
\* call suggestBump.
C10_OverrideVerbatim ==
    \A p \in Procs :
        (releaseAs # Undefined /\ run[p].pc \notin
            {"idle", "findMergedReleasePR", "latestTag", "commits", "coerceReleaseCandidate"}
         /\ \E j \in 1..Len(run[p].calls) :
               run[p].calls[j].op = "commitsSinceSha" /\ run[p].calls[j].ok)
        => /\ run[p].version = releaseAs
           /\ run[p].previousTag = run[p].latestTag
           /\ run[p].error # "failed to increment"
           /\ CallsOf(p, "suggestBump") = {}

C10_Witness ==
    /\ releaseAs = <<0, 9, 0>>
    /\ run[1].latestTag = <<1, 2, 3>>
    /\ run[1].commits = <<"breaking">>
    /\ run[1].version = <<0, 9, 0>>
    /\ run[1].previousTag = <<1, 2, 3>>

\* coerceReleaseCandidate of run p has returned or thrown.
Coerced(p) ==
    /\ run[p].pc \notin {"idle", "findMergedReleasePR", "latestTag", "commits",
                         "coerceReleaseCandidate"}
    /\ \E j \in 1..Len(run[p].calls) :
          run[p].calls[j].op = "commitsSinceSha" /\ run[p].calls[j].ok

\* semver's ordering of two versions that parse.
semverGt(a, b) ==
    \/ a[1] > b[1]
    \/ a[1] = b[1] /\ a[2] > b[2]
    \/ a[1] = b[1] /\ a[2] = b[2] /\ a[3] > b[3]

\* C11: with no previous tag and no override, coerceReleaseCandidate
\* returns version 1.0.0 and no previousTag for every commit sequence: it
\* does not throw and does not ask for a bump.
C11_SeedVersion ==
    \A p \in Procs :
        (repoTag = Undefined /\ releaseAs = Undefined /\ Coerced(p)) =>
            /\ run[p].version = <<1, 0, 0>>
            /\ run[p].previousTag = Undefined
            /\ run[p].error # "failed to increment"
            /\ CallsOf(p, "suggestBump") = {}

C11_Witness ==
    /\ repoTag = Undefined
    /\ releaseAs = Undefined
    /\ run[1].commits = <<"breaking">>
    /\ run[1].version = <<1, 0, 0>>
    /\ run[1].previousTag = Undefined
    /\ run[1].outcome = "PR_OPEN"

\* C12: with a previous tag and no override, a candidate that
\* coerceReleaseCandidate returns has a version strictly greater, in semver's
\* ordering, than the tag's version.
C12_Monotonic ==
    \A p \in Procs :
        (repoTag # Undefined /\ releaseAs = Undefined /\ Coerced(p)
         /\ run[p].error # "failed to increment") =>
            /\ Len(run[p].latestTag) = 3
            /\ Len(run[p].version) = 3
            /\ semverGt(run[p].version, run[p].latestTag)
            /\ run[p].previousTag = run[p].latestTag

C12_Witness ==
    /\ releaseAs = Undefined
    /\ run[1].latestTag = <<0, 1, 0>>
    /\ bumpMinorPreMajor
    /\ run[1].commits = <<"feat">>
    /\ run[1].version = <<0, 1, 1>>

C14_Result ==
    \A p \in Procs :
        run[p].pc = "done" =>
            /\ run[p].outcome = "PR_OPEN" =>
                  /\ run[p].result = FirstNewPR
                  /\ \E j \in CallsOf(p, "openPR") : run[p].calls[j].ok
                  /\ run[p].result \in openPRs
                  /\ run[p].result \in labeledPRs
                  /\ run[p].result \notin run[p].openAtStart
            /\ run[p].outcome = "PENDING_RELEASE_EXISTS" =>
                  run[p].result = MergedPRNumber /\ mergedPR = MergedPRNumber
            /\ run[p].outcome = "NO_USER_FACING_CHANGE" => run[p].result = NoPR
            /\ run[p].result # NoPR =>
                  run[p].outcome \in {"PR_OPEN", "PENDING_RELEASE_EXISTS"}

C14_Witness ==
    /\ run[1].outcome = "PR_OPEN"
    /\ run[1].result = 12
    /\ run[1].openAtStart = {9, 10}
    /\ openPRs = {9, 12}
    /\ labeledPRs = {10, 12}

\* C17: addLabels is asked for the number openPR returned and for no other,
\* after openPR returned and before findOpenReleasePRs is issued, which is
\* issued only once addLabels has returned.
C17_Labels ==
    \A p \in Procs : \A j \in 1..Len(run[p].calls) :
        /\ run[p].calls[j].op = "addLabels" =>
              /\ run[p].calls[j].arg = FirstNewPR
              /\ run[p].calls[j].arg = run[p].pr
              /\ j > 1 /\ run[p].calls[j - 1].op = "openPR" /\ run[p].calls[j - 1].ok
              /\ \A k \in 1..j : run[p].calls[k].op # "findOpenReleasePRs"
              /\ run[p].calls[j].ok => run[p].calls[j].arg \in labeledPRs
        /\ run[p].calls[j].op = "findOpenReleasePRs" =>
              ReturnedBefore(p, "addLabels", j)

C17_Witness ==
    /\ run[1].pc = "closeStaleReleasePRs"
    /\ run[1].pr = 12
    /\ \E j \in CallsOf(1, "addLabels") : run[1].calls[j].arg = 12 /\ run[1].calls[j].ok
    /\ run[1].prs = <<12, 11, 10>>

\* C18: a run that reaches shaFromCommits and openPR has fetched at least
\* one commit, so commits[0] is defined; with no commit fetched the run
\* never gets there, with or without a tag, with or without an override.
C18_CommitsAtBranchPoint ==
    \A p \in Procs :
        /\ run[p].pc = "openPR" => run[p].commits # <<>>
        /\ run[p].error # "TypeError"
        /\ CallsOf(p, "openPR") # {} => run[p].commits # <<>>
        /\ (Coerced(p) /\ run[p].commits = <<>>) =>
              run[p].pc = "generateChangelogEntry" \/ run[p].pc = "done"

C18_Witness ==
    /\ run[1].pc = "done"
    /\ run[1].commits = <<>>
    /\ run[1].latestTag = <<1, 2, 3>>
    /\ releaseAs = <<2, 0, 0>>
    /\ run[1].outcome = "NO_USER_FACING_CHANGE"

\* C19: with releaseAs supplied, a run whose calls all return creates a
\* pull request exactly when a commit is user-facing: with none, or with no
\* commit, it ends in NO_USER_FACING_CHANGE and opens nothing; and a merged
\* pull request awaiting release ends it in PENDING_RELEASE_EXISTS whatever
\* the override.
C19_OverrideDoesNotForce ==
    \A p \in Procs :
        (releaseAs # Undefined /\ Returned(p)) =>
            IF mergedPR # NoPR
            THEN run[p].outcome = "PENDING_RELEASE_EXISTS" /\ run[p].version = Undefined
            ELSE /\ run[p].version = releaseAs
                 /\ run[p].outcome = "PR_OPEN" <=>
                       \E j \in DOMAIN run[p].commits : run[p].commits[j] # "chore"
                 /\ run[p].outcome # "PR_OPEN" =>
                       /\ run[p].outcome = "NO_USER_FACING_CHANGE"
                       /\ CallsOf(p, "openPR") = {}
                       /\ RepoUntouchedBy(p)

C19_Witness ==
    /\ releaseAs = <<2, 0, 0>>
    /\ run[1].latestTag = <<1, 2, 3>>
    /\ run[1].commits = <<"chore", "chore">>
    /\ run[1].version = <<2, 0, 0>>
    /\ run[1].outcome = "NO_USER_FACING_CHANGE"

\* The positions of a run, in the order of the source.
PcOrder ==
    <<"idle", "findMergedReleasePR", "latestTag", "commits", "coerceReleaseCandidate",
      "generateChangelogEntry", "openPR", "addLabels", "findOpenReleasePRs",
      "closeStaleReleasePRs", "done">>

PcRank(pc) == CHOOSE k \in 1..Len(PcOrder) : PcOrder[k] = pc

\* What a run has used so far.
C16_Resources ==
    \A p \in Procs :
        /\ run[p].pc = "done" <=>
              run[p].outcome \in {"PENDING_RELEASE_EXISTS", "NO_USER_FACING_CHANGE",
                                  "PR_OPEN", "ERROR"}
        /\ run[p].pc # "done" => run[p].outcome = ""
        /\ Cardinality(CallsOf(p, "openPR")) <= 1
        /\ Cardinality(CallsOf(p, "addLabels")) <= 1
        /\ Cardinality(CallsOf(p, "findOpenReleasePRs")) <= 1
        /\ ClosedBy(p) \subseteq Range(run[p].prs)
        /\ \A j, k \in CallsOf(p, "closePR") :
              run[p].calls[j].arg = run[p].calls[k].arg => j = k

\* A step of a run moves it forward: to a later position, or to the next
\* pull request of the listing.
C16_Forward ==
    \A p \in Procs :
        \/ run'[p] = run[p]
        \/ PcRank(run'[p].pc) > PcRank(run[p].pc)
        \/ /\ run'[p].pc = run[p].pc
           /\ run[p].pc = "closeStaleReleasePRs"
           /\ run'[p].i = run[p].i + 1
           /\ run'[p].prs = run[p].prs

\* C16: every invoked run ends, in exactly one of PENDING_RELEASE_EXISTS,
\* NO_USER_FACING_CHANGE, PR_OPEN or an error; it never goes back to an
\* earlier position; it issues at most one openPR and one addLabels, and at
\* most one closePR per pull request of the listing it fetched.
C16_Termination ==
    /\ []C16_Resources
    /\ [][C16_Forward]_vars
    /\ <>(\A p \in Procs : p <= invocations => run[p].pc = "done")

C16_Witness ==
    /\ run[1].pc = "done"
    /\ run[1].outcome = "PR_OPEN"
    /\ Cardinality(CallsOf(1, "closePR")) = 2
    /\ Len(run[1].prs) = 3

\* C15: two invocations under way at once each keep the pull request they
\* created and close every other one of their own listing, the other
\* invocation's included: once both have returned in PR_OPEN, the open
\* labeled pull requests are among the two they created, and a created one
\* is closed exactly when the other invocation listed it.  C15_Witness is
\* the interleaving where each closes the other's and none remains.
C15_Race ==
    \A p, q \in Procs :
        (p # q /\ run[p].outcome = "PR_OPEN" /\ run[q].outcome = "PR_OPEN") =>
            /\ run[p].pr # run[q].pr
            /\ OpenLabeled \subseteq {run[p].pr, run[q].pr}
            /\ run[p].pr \notin ClosedBy(p)
            /\ run[p].pr \in ClosedBy(q) <=> run[p].pr \in Range(run[q].prs)
            /\ run[p].pr \in openPRs <=> run[p].pr \notin ClosedBy(q)
            /\ Cardinality(OpenLabeled) \in {0, 1, 2}

C15_Witness ==
    /\ run[1].outcome = "PR_OPEN"
    /\ run[2].outcome = "PR_OPEN"
    /\ \A p \in {1, 2} :
          /\ run[p].calls[1].op = "findMergedReleasePR" /\ run[p].calls[1].ok
          /\ \E j \in CallsOf(p, "openPR") : run[p].calls[j].ok
    /\ run[1].pr # run[2].pr
    /\ run[2].pr \in ClosedBy(1)
    /\ run[1].pr \in ClosedBy(2)
    /\ OpenLabeled = {}
====
